---------------------------- MODULE Spec2Model ----------------------------
(***************************************************************************)
(* NASOOH: the prediction builder (predict_next_term_fixed_v2.py) and the  *)
(* API server (api_server.py), which share predictions_next_term.csv.      *)
(*                                                                         *)
(* A text is a sequence of one-character strings, so that the conversions  *)
(* of the code (strip, lower, upper, int, str, the CSV loader's type       *)
(* inference) are computed character by character.                         *)
(***************************************************************************)
EXTENDS Integers, Sequences, FiniteSets, TLC

VARIABLES
    tkArgs,     \* SpecTermKey: the pair of term_key values handed to term_sort_key
    tkRes,      \* SpecTermKey: the pair of keys returned, <<>> before the call
    input,      \* builder: command line, workbook, models directory
    pc,         \* builder: position in main()
    ts,         \* builder: the loaded sheet (lines 63-68)
    latest,     \* builder: completed / latest frame (lines 73-82)
    model,      \* builder: what the run has loaded and computed (reg, clf, cfg, predictions)
    err,        \* builder: the exception that ended the run, NoError otherwise
    nwrites,    \* builder: number of times the run wrote the output file
    csv,        \* predictions_next_term.csv on disk
    req,        \* API: the last request's student_id argument
    resp        \* API: the last response

vars == <<tkArgs, tkRes, input, pc, ts, latest, model, err, nwrites, csv, req, resp>>

-----------------------------------------------------------------------------
(* Characters and texts *)

UpperChars == <<"A","B","C","D","E","F","G","H","I","J","K","L","M",
                "N","O","P","Q","R","S","T","U","V","W","X","Y","Z">>

LowerChars == <<"a","b","c","d","e","f","g","h","i","j","k","l","m",
                "n","o","p","q","r","s","t","u","v","w","x","y","z">>

DigitChars == <<"0","1","2","3","4","5","6","7","8","9">>

\* The characters of the model in code-point order (Python compares str by code point).
Ascii == <<" ", "+", "-", ".">> \o DigitChars \o UpperChars \o <<"_">> \o LowerChars

Ord(c) == CHOOSE i \in 1..Len(Ascii) : Ascii[i] = c

IsSpace(c) == c = " "

IsDigit(c) == \E i \in 1..Len(DigitChars) : DigitChars[i] = c

DigitVal(c) == (CHOOSE i \in 1..Len(DigitChars) : DigitChars[i] = c) - 1

\* str.lower / str.upper on one character
LowerChar(c) ==
    IF \E i \in 1..Len(UpperChars) : UpperChars[i] = c
    THEN LowerChars[CHOOSE i \in 1..Len(UpperChars) : UpperChars[i] = c]
    ELSE c

UpperChar(c) ==
    IF \E i \in 1..Len(LowerChars) : LowerChars[i] = c
    THEN UpperChars[CHOOSE i \in 1..Len(LowerChars) : LowerChars[i] = c]
    ELSE c

Lower(s) == [i \in 1..Len(s) |-> LowerChar(s[i])]

Upper(s) == [i \in 1..Len(s) |-> UpperChar(s[i])]

\* str.strip(): leading and trailing whitespace removed
Strip(s) ==
    LET nonsp == {i \in 1..Len(s) : ~IsSpace(s[i])}
    IN  IF nonsp = {} THEN <<>>
        ELSE LET lo == CHOOSE i \in nonsp : \A j \in nonsp : i <= j
                 hi == CHOOSE i \in nonsp : \A j \in nonsp : j <= i
             IN  SubSeq(s, lo, hi)

\* Python's < on str: lexicographic by code point
RECURSIVE StrLess(_, _)
StrLess(a, b) ==
    IF b = <<>> THEN FALSE
    ELSE IF a = <<>> THEN TRUE
    ELSE IF a[1] # b[1] THEN Ord(a[1]) < Ord(b[1])
    ELSE StrLess(Tail(a), Tail(b))

\* A decimal integer literal: an optional sign and one or more digits
IsIntText(s) ==
    LET body == IF s # <<>> /\ s[1] \in {"+", "-"} THEN Tail(s) ELSE s
    IN  body # <<>> /\ \A i \in 1..Len(body) : IsDigit(body[i])

RECURSIVE DigitsVal(_, _)
DigitsVal(s, acc) ==
    IF s = <<>> THEN acc ELSE DigitsVal(Tail(s), 10 * acc + DigitVal(s[1]))

IntOfText(s) ==
    IF s[1] = "-" THEN 0 - DigitsVal(Tail(s), 0)
    ELSE IF s[1] = "+" THEN DigitsVal(Tail(s), 0)
    ELSE DigitsVal(s, 0)

\* str(n) of an int
RECURSIVE NatText(_)
NatText(n) ==
    IF n < 10 THEN <<DigitChars[n + 1]>>
    ELSE NatText(n \div 10) \o <<DigitChars[(n % 10) + 1]>>

IntText(n) == IF n < 0 THEN <<"-">> \o NatText(0 - n) ELSE NatText(n)

-----------------------------------------------------------------------------
(* Cell values of a frame: a number, a str or a missing value (NaN) *)

Num(n) == [k |-> "num", n |-> n, s |-> <<>>]

Str(s) == [k |-> "str", n |-> 0, s |-> s]

NaN == [k |-> "nan", n |-> 0, s |-> <<>>]

-----------------------------------------------------------------------------
(* term_sort_key *)

SummerOrdinal == 3

\* int(x) inside try/except: the value, or the except branch's 0
IntOrZero(s) ==
    LET t == Strip(s) IN IF IsIntText(t) THEN IntOfText(t) ELSE 0

\* str.split("-", 1) of a text that contains "-"
SplitDash(s) ==
    LET i == CHOOSE i \in 1..Len(s) : s[i] = "-" /\ \A j \in 1..(i - 1) : s[j] # "-"
    IN  <<SubSeq(s, 1, i - 1), SubSeq(s, i + 1, Len(s))>>

\* A variant without the summer case of lines 21-22: "S" falls to int()'s 0
term_sort_key_no_summer(term_key) ==
    IF term_key.k # "str" \/ ~(\E i \in 1..Len(term_key.s) : term_key.s[i] = "-")
    THEN <<0, 0>>
    ELSE LET parts == SplitDash(term_key.s)
         IN  <<IntOrZero(parts[1]), IntOrZero(parts[2])>>

term_sort_key(term_key) ==
    IF term_key.k # "str" \/ ~(\E i \in 1..Len(term_key.s) : term_key.s[i] = "-")
    THEN <<0, 0>>
    ELSE LET parts == SplitDash(term_key.s)
             y == IntOrZero(parts[1])
             t == IF Upper(parts[2]) = <<"S">> THEN SummerOrdinal
                  ELSE IntOrZero(parts[2])
         IN  <<y, t>>

\* Python's < on the (y, t) tuples
KeyLess(a, b) == a[1] < b[1] \/ (a[1] = b[1] /\ a[2] < b[2])


-----------------------------------------------------------------------------
(* SpecTermKey: term_sort_key applied to two term_key values *)

FirstYear == 1447

YearSpan == 1

Years == FirstYear..(FirstYear + YearSpan)

\* The text before the first "-": a year, or something int() rejects
YearTexts == {IntText(y) : y \in Years} \cup {<<>>, <<"X">>, <<" ", "7">>}

\* The text after the first "-"
TermTexts == {<<"1">>, <<"2">>, <<"3">>, <<"S">>, <<"s">>, <<"X">>, <<>>,
              <<"-", "1">>, <<"1", "2">>}

TermKeyTexts ==
    {y \o <<"-">> \o t : y \in YearTexts, t \in TermTexts}
        \cup {IntText(FirstYear), <<>>, <<"S">>}

\* A term_key cell: a str, or a number or an empty cell (not a str)
TermKeyVals == {Str(s) : s \in TermKeyTexts} \cup {NaN, Num(FirstYear)}

TermKeyIdle == tkArgs = <<>> /\ tkRes = <<>>

TermKeyStart ==
    /\ tkArgs \in TermKeyVals \X TermKeyVals
    /\ tkRes = <<>>

\* completed["term_key"].apply(term_sort_key), on two cells
SortKeyCall ==
    /\ tkArgs # <<>>
    /\ tkRes = <<>>
    /\ tkRes' = <<term_sort_key(tkArgs[1]), term_sort_key(tkArgs[2])>>
    /\ UNCHANGED <<tkArgs, input, pc, ts, latest, model, err, nwrites, csv, req, resp>>

-----------------------------------------------------------------------------
(* The CSV file and pandas.read_csv *)

(* A file on disk: a header line and rows of cells, all text as written.   *)
(* A column name is written as one element ("student_id"); whitespace      *)
(* around it is written character by character, so Strip applies to it.    *)
NoFile == [exists |-> FALSE, header |-> <<>>, rows |-> <<>>]

File(header, rows) == [exists |-> TRUE, header |-> header, rows |-> rows]

None == [k |-> "none", n |-> 0, s |-> <<>>]

\* Cells read_csv reads as a missing value (a part of its default na_values)
NaTexts == {<<>>, <<"N", "A">>, <<"n", "a", "n">>}

Column(rows, j) == [i \in 1..Len(rows) |-> rows[i][j]]

\* read_csv's type of a column: int64 when every cell is an integer literal,
\* float64 when some of those are missing, object otherwise
ColumnType(cells) ==
    IF Len(cells) = 0 THEN "object"
    ELSE IF \A i \in 1..Len(cells) : IsIntText(cells[i]) THEN "int"
    ELSE IF \A i \in 1..Len(cells) : IsIntText(cells[i]) \/ cells[i] \in NaTexts
    THEN "float"
    ELSE "object"

ParseCell(type, cell) ==
    IF cell \in NaTexts THEN NaN
    ELSE IF type = "object" THEN Str(cell)
    ELSE Num(IntOfText(cell))

\* load_predictions, api_server.py lines 27-32; None is the missing file
load_predictions(file) ==
    IF ~file.exists THEN [loaded |-> FALSE, columns |-> <<>>, types |-> <<>>, rows |-> <<>>]
    ELSE LET types == [j \in 1..Len(file.header) |-> ColumnType(Column(file.rows, j))]
         IN  [loaded  |-> TRUE,
              columns |-> [j \in 1..Len(file.header) |-> Strip(file.header[j])],
              types   |-> types,
              rows    |-> [i \in 1..Len(file.rows) |->
                             [j \in 1..Len(file.header) |->
                                 ParseCell(types[j], file.rows[i][j])]]]

\* Series.astype(str) on one value of a column of the given type
AsTypeStr(type, v) ==
    IF v.k = "nan" THEN <<"n", "a", "n">>
    ELSE IF v.k = "str" THEN v.s
    ELSE IF type = "float" THEN IntText(v.n) \o <<".", "0">>
    ELSE IntText(v.n)

HasColumn(df, name) == \E j \in 1..Len(df.columns) : df.columns[j] = <<name>>

ColumnIndex(df, name) == CHOOSE j \in 1..Len(df.columns) : df.columns[j] = <<name>>

\* r.get(name) on row.iloc[-1].to_dict()
RowGet(df, i, name) ==
    IF HasColumn(df, name) THEN df.rows[i][ColumnIndex(df, name)] ELSE None

\* Python truth value of a cell value
Truthy(v) ==
    CASE v.k = "none" -> FALSE
      [] v.k = "num"  -> v.n # 0
      [] v.k = "str"  -> v.s # <<>>
      [] v.k = "nan"  -> TRUE

\* a or b or c: the first operand that is true, else the last operand
RECURSIVE OrChain(_)
OrChain(vals) ==
    IF Len(vals) = 1 \/ Truthy(vals[1]) THEN vals[1] ELSE OrChain(Tail(vals))

\* The column lists of api_server.py lines 55-59
NameColumns == <<"student_name_en", "student_label", "student_name">>

GpaColumns == <<"cum_gpa", "current_gpa", "gpa">>

PredictedColumns == <<"predicted_next_term_gpa", "predicted_gpa", "pred">>

RiskColumns == <<"predicted_risk_level", "risk_level", "risk">>

ProbColumns == <<"risk_probability_high", "prob_high", "risk_prob">>

Resolve(df, i, names) == OrChain([j \in 1..Len(names) |-> RowGet(df, i, names[j])])

-----------------------------------------------------------------------------
(* GET /api/prediction *)

NoReq == [present |-> FALSE, s |-> <<>>]

NoResp == [status |-> 0]

ErrorResp(status, error) == [status |-> status, error |-> error]

\* df[df["student_id"] == student_id]: the positions of the matching rows
MatchingRows(df, student_id) ==
    LET j == ColumnIndex(df, "student_id")
    IN  {i \in 1..Len(df.rows) : AsTypeStr(df.types[j], df.rows[i][j]) = student_id}

\* row.iloc[-1]: the position of the last matching row
LastRow(rows) == CHOOSE i \in rows : \A k \in rows : k <= i

\* lines 52-68: the 200 response built from row i; "row" records i
OkResp(df, i, student_id) ==
    [status |-> 200,
     row |-> i,
     student_id |-> student_id,
     student_name |-> OrChain([j \in 1..Len(NameColumns) |->
                                  RowGet(df, i, NameColumns[j])] \o <<Str(<<>>)>>),
     current_gpa |-> Resolve(df, i, GpaColumns),
     predicted_next_term_gpa |-> Resolve(df, i, PredictedColumns),
     risk_level |-> Resolve(df, i, RiskColumns),
     risk_probability_high |-> Resolve(df, i, ProbColumns)]

\* A variant that loads the file before it looks at the identifier
prediction_file_first(file, q) ==
    LET student_id == Strip(IF q.present THEN q.s ELSE <<>>)
        df == load_predictions(file)
    IN  IF ~df.loaded THEN
            ErrorResp(500, "predictions_next_term.csv not found in the same folder as api_server.py")
        ELSE IF ~HasColumn(df, "student_id") THEN
            ErrorResp(500, "CSV missing column: student_id")
        ELSE IF student_id = <<>> THEN ErrorResp(400, "student_id required")
        ELSE IF MatchingRows(df, student_id) = {} THEN
            ErrorResp(404, "student_id not found")
        ELSE OkResp(df, LastRow(MatchingRows(df, student_id)), student_id)

\* prediction(), api_server.py lines 34-68; q is request.args.get("student_id")
prediction(file, q) ==
    LET student_id == Strip(IF q.present THEN q.s ELSE <<>>)
        df == load_predictions(file)
    IN  IF student_id = <<>> THEN ErrorResp(400, "student_id required")
        ELSE IF ~df.loaded THEN
            ErrorResp(500, "predictions_next_term.csv not found in the same folder as api_server.py")
        ELSE IF ~HasColumn(df, "student_id") THEN
            ErrorResp(500, "CSV missing column: student_id")
        ELSE IF MatchingRows(df, student_id) = {} THEN
            ErrorResp(404, "student_id not found")
        ELSE OkResp(df, LastRow(MatchingRows(df, student_id)), student_id)

\* The student_id arguments of the requests
RequestTexts == {<<>>, <<" ">>, <<"7">>, <<" ", "7", " ">>, <<"0", "7">>,
                 <<"0", "0", "7">>, <<"A", "7">>, <<"N", "A">>, <<"n", "a", "n">>,
                 <<"7", ".", "0">>, <<"8">>}

Requests == {NoReq} \cup {[present |-> TRUE, s |-> s] : s \in RequestTexts}

ApiIdle == req = NoReq /\ resp = NoResp

Prediction(q) ==
    /\ req' = q
    /\ resp' = prediction(csv, q)
    /\ UNCHANGED <<tkArgs, tkRes, input, pc, ts, latest, model, err, nwrites, csv>>

-----------------------------------------------------------------------------
(* The builder: frames and the steps of main() *)

(* A frame: its set of column names and its rows, each a function from the *)
(* column names to cell values.                                            *)
Frame(cols, rows) == [cols |-> cols, rows |-> rows]

NoFrame == Frame({}, <<>>)

NoError == [type |-> "", what |-> "", names |-> <<>>]

Error(type, what, names) == [type |-> type, what |-> what, names |-> names]

\* read_sheet_case_insensitive, lines 30-43 -----------------------------------

\* The fallback candidates of line 40
T_Term_Summary == <<"T","e","r","m","_","S","u","m","m","a","r","y">>

T_term_summary == <<"t","e","r","m","_","s","u","m","m","a","r","y">>

T_02_term_summary == <<"0","2","_","t","e","r","m","_","s","u","m","m","a","r","y">>

T_ML_Dataset == <<"M","L","_","D","a","t","a","s","e","t">>

T_ml_dataset == <<"m","l","_","d","a","t","a","s","e","t">>

Candidates == <<T_Term_Summary, T_term_summary, T_02_term_summary, T_ML_Dataset, T_ml_dataset>>

\* {s.lower(): s for s in available}: a later sheet replaces an earlier one
InLowerMap(available, key) == \E i \in 1..Len(available) : Lower(available[i]) = key

LowerMap(available, key) ==
    available[CHOOSE i \in 1..Len(available) :
                 /\ Lower(available[i]) = key
                 /\ \A j \in (i + 1)..Len(available) : Lower(available[j]) # key]

\* The first candidate of the list found in lower_map, 0 when there is none
FirstCandidate(available) ==
    LET found == {c \in 1..Len(Candidates) : InLowerMap(available, Lower(Candidates[c]))}
    IN  IF found = {} THEN 0 ELSE CHOOSE c \in found : \A d \in found : c <= d

\* A variant that consults the candidates of line 40 before the
\* case-insensitive match of lines 36-38
read_sheet_candidates_first(available, requested) ==
    IF \E i \in 1..Len(available) : available[i] = requested THEN requested
    ELSE IF FirstCandidate(available) # 0
    THEN LowerMap(available, Lower(Candidates[FirstCandidate(available)]))
    ELSE IF InLowerMap(available, Lower(requested)) THEN LowerMap(available, Lower(requested))
    ELSE <<>>

\* The name of the sheet that is read; <<>> when ValueError is raised
read_sheet_case_insensitive(available, requested) ==
    IF \E i \in 1..Len(available) : available[i] = requested THEN requested
    ELSE IF InLowerMap(available, Lower(requested)) THEN LowerMap(available, Lower(requested))
    ELSE IF FirstCandidate(available) # 0
    THEN LowerMap(available, Lower(Candidates[FirstCandidate(available)]))
    ELSE <<>>

\* pd.to_numeric(errors="coerce"), lines 65-68 --------------------------------

NumericColumns == {"term_gpa", "term_points", "cum_gpa", "term_registered_hours", "cum_points"}

\* A str that reads as a number becomes that number, any other str is missing
to_numeric(v) ==
    IF v.k = "str" THEN (IF IsIntText(v.s) THEN Num(IntOfText(v.s)) ELSE NaN)
    ELSE v

CoerceRow(cols, row) ==
    [c \in cols |-> IF c \in NumericColumns THEN to_numeric(row[c]) ELSE row[c]]

\* (ts["term_gpa"] > 0) & (ts["term_points"] > 0), line 73 -------------------

Positive(v) == v.k = "num" /\ v.n > 0

IsCompleted(row) == Positive(row["term_gpa"]) /\ Positive(row["term_points"])

RECURSIVE SelectSeq2(_, _)
SelectSeq2(rows, keep) ==
    IF rows = <<>> THEN <<>>
    ELSE (IF keep[1] THEN <<rows[1]>> ELSE <<>>) \o SelectSeq2(Tail(rows), Tail(keep))

Completed(rows) == SelectSeq2(rows, [i \in 1..Len(rows) |-> IsCompleted(rows[i])])

\* sort_values(["student_id", "__key"]).groupby("student_id").tail(1), line 82

Key(kt) == [k |-> "key", n |-> 0, s |-> kt]

WithKey(row) ==
    [c \in DOMAIN row \cup {"__key"} |->
        IF c = "__key" THEN Key(term_sort_key(row["term_key"])) ELSE row[c]]

\* The order of two student_id cells of one kind; a missing one sorts last
IdLess(a, b) ==
    IF a.k = "nan" THEN FALSE
    ELSE IF b.k = "nan" THEN TRUE
    ELSE IF a.k = "num" THEN a.n < b.n
    ELSE StrLess(a.s, b.s)

RowLess(a, b) ==
    \/ IdLess(a["student_id"], b["student_id"])
    \/ /\ a["student_id"] = b["student_id"]
       /\ KeyLess(a["__key"].s, b["__key"].s)

\* Stable insertion: r goes after every row that is not greater than it
RECURSIVE InsertRow(_, _)
InsertRow(sorted, r) ==
    IF sorted = <<>> THEN <<r>>
    ELSE IF RowLess(r, sorted[1]) THEN <<r>> \o sorted
    ELSE <<sorted[1]>> \o InsertRow(Tail(sorted), r)

RECURSIVE SortRows(_, _)
SortRows(rows, acc) ==
    IF rows = <<>> THEN acc ELSE SortRows(Tail(rows), InsertRow(acc, rows[1]))

\* A variant that keeps head(1), the first row of each group
GroupHead(rows) ==
    SelectSeq2(rows, [i \in 1..Len(rows) |->
        /\ rows[i]["student_id"].k # "nan"
        /\ \A j \in 1..(i - 1) : rows[j]["student_id"] # rows[i]["student_id"]])

\* groupby("student_id").tail(1): the last row of each group, in frame order;
\* groupby drops the rows whose key is missing
GroupTail(rows) ==
    SelectSeq2(rows, [i \in 1..Len(rows) |->
        /\ rows[i]["student_id"].k # "nan"
        /\ \A j \in (i + 1)..Len(rows) : rows[j]["student_id"] # rows[i]["student_id"]])

Latest(completed) == GroupTail(SortRows([i \in 1..Len(completed) |-> WithKey(completed[i])], <<>>))

\* missing = [c for c in feature_cols if c not in latest.columns], line 85
MissingFeatures(feature_cols, columns) ==
    SelectSeq2(feature_cols, [i \in 1..Len(feature_cols) |-> feature_cols[i] \notin columns])

\* Lines 102-110: the display label column, "" for None
LabelColumn(columns) ==
    IF "student_label" \in columns THEN "student_label"
    ELSE IF "student_name_en" \in columns THEN "student_name_en"
    ELSE IF "student_name" \in columns THEN "student_name"
    ELSE ""

\* Lines 112-125: the columns of out, in order
OutColumns(columns, has_proba) ==
    (IF LabelColumn(columns) # ""
     THEN <<"student_id", "student_label", "term_key", "term_gpa", "cum_gpa">>
     ELSE <<"student_id", "term_key", "term_gpa", "cum_gpa", "student_label">>)
    \o <<"predicted_next_term_gpa", "predicted_risk_level">>
    \o (IF has_proba THEN <<"risk_probability_high">> ELSE <<>>)

OutCell(columns, row, pred, c) ==
    CASE c = "student_label" ->
            (IF LabelColumn(columns) # "" THEN row[LabelColumn(columns)] ELSE row["student_id"])
      [] c = "predicted_next_term_gpa" -> pred.gpa
      [] c = "predicted_risk_level" -> pred.risk
      [] c = "risk_probability_high" -> pred.proba
      [] OTHER -> row[c]

\* DataFrame.to_csv of one value
CsvText(v) ==
    CASE v.k = "num" -> IntText(v.n)
      [] v.k = "str" -> v.s
      [] OTHER -> <<>>

\* out.sort_values("student_id"), line 127
RECURSIVE InsertOut(_, _)
InsertOut(sorted, r) ==
    IF sorted = <<>> THEN <<r>>
    ELSE IF IdLess(r.row["student_id"], sorted[1].row["student_id"]) THEN <<r>> \o sorted
    ELSE <<sorted[1]>> \o InsertOut(Tail(sorted), r)

RECURSIVE SortOut(_, _)
SortOut(rows, acc) ==
    IF rows = <<>> THEN acc ELSE SortOut(Tail(rows), InsertOut(acc, rows[1]))

\* out.to_csv(args.out, index=False), line 128: the file written
to_csv(columns, rows, has_proba) ==
    LET names == OutColumns(columns, has_proba)
        sorted == SortOut(rows, <<>>)
    IN  File([j \in 1..Len(names) |-> <<names[j]>>],
             [i \in 1..Len(sorted) |->
                 [j \in 1..Len(names) |->
                     CsvText(OutCell(columns, sorted[i].row, sorted[i].pred, names[j]))]])

NoModel == [feature_cols |-> <<>>, sheet |-> 0, preds |-> <<>>, has_proba |-> FALSE]

BuilderIdle ==
    /\ input = <<>> /\ pc = "off" /\ ts = NoFrame /\ latest = NoFrame
    /\ model = NoModel /\ err = NoError /\ nwrites = 0

BuilderStart ==
    /\ pc = "load_models" /\ ts = NoFrame /\ latest = NoFrame
    /\ model = NoModel /\ err = NoError /\ nwrites = 0

Fail(e) == pc' = "failed" /\ err' = e

\* Lines 53-61: joblib.load of the two models, json.load of config.json.
\* A missing or unreadable file raises.
LoadModels ==
    /\ pc = "load_models"
    /\ \E ok \in BOOLEAN :
          IF ok
          THEN /\ model' = [model EXCEPT !.feature_cols = input.feature_cols]
               /\ pc' = "read_sheet"
               /\ err' = err
          ELSE /\ Fail(Error("OSError", "models_dir", <<>>))
               /\ model' = model
    /\ UNCHANGED <<tkArgs, tkRes, input, ts, latest, nwrites, csv, req, resp>>

SheetNames(book) == [i \in 1..Len(book) |-> book[i].name]

SheetIndex(book, name) == CHOOSE i \in 1..Len(book) : book[i].name = name

\* Line 63
ReadSheet ==
    /\ pc = "read_sheet"
    /\ LET name == read_sheet_case_insensitive(SheetNames(input.book), input.sheet)
       IN  IF name = <<>>
           THEN /\ Fail(Error("ValueError", "Worksheet not found. Available sheets:",
                              SheetNames(input.book)))
                /\ UNCHANGED <<ts, model>>
           ELSE /\ ts' = input.book[SheetIndex(input.book, name)].frame
                /\ model' = [model EXCEPT !.sheet = SheetIndex(input.book, name)]
                /\ pc' = "coerce"
                /\ err' = err
    /\ UNCHANGED <<tkArgs, tkRes, input, latest, nwrites, csv, req, resp>>

\* Lines 65-68
Coerce ==
    /\ pc = "coerce"
    /\ ts' = Frame(ts.cols, [i \in 1..Len(ts.rows) |-> CoerceRow(ts.cols, ts.rows[i])])
    /\ pc' = "filter"
    /\ UNCHANGED <<tkArgs, tkRes, input, latest, model, err, nwrites, csv, req, resp>>

\* Lines 70-76
FilterCompleted ==
    /\ pc = "filter"
    /\ IF "term_gpa" \notin ts.cols \/ "term_points" \notin ts.cols
       THEN /\ Fail(Error("KeyError", "Term_Summary must contain 'term_gpa' and 'term_points' columns.", <<>>))
            /\ latest' = latest
       ELSE IF Completed(ts.rows) = <<>>
       THEN /\ Fail(Error("ValueError", "No completed terms found (term_gpa>0 and term_points>0).", <<>>))
            /\ latest' = latest
       ELSE /\ latest' = Frame(ts.cols, Completed(ts.rows))
            /\ pc' = "select"
            /\ err' = err
    /\ UNCHANGED <<tkArgs, tkRes, input, ts, model, nwrites, csv, req, resp>>

\* Lines 78-82
SelectLatest ==
    /\ pc = "select"
    /\ IF "student_id" \notin latest.cols \/ "term_key" \notin latest.cols
       THEN /\ Fail(Error("KeyError", "Term_Summary must contain 'student_id' and 'term_key' columns.", <<>>))
            /\ latest' = latest
       ELSE /\ latest' = Frame(latest.cols \cup {"__key"}, Latest(latest.rows))
            /\ pc' = "features"
            /\ err' = err
    /\ UNCHANGED <<tkArgs, tkRes, input, ts, model, nwrites, csv, req, resp>>

\* Lines 84-88
ValidateFeatures ==
    /\ pc = "features"
    /\ IF MissingFeatures(model.feature_cols, latest.cols) # <<>>
       THEN Fail(Error("KeyError", "Missing required feature columns in Term_Summary:",
                       MissingFeatures(model.feature_cols, latest.cols)))
       ELSE pc' = "predict" /\ err' = err
    /\ UNCHANGED <<tkArgs, tkRes, input, ts, latest, model, nwrites, csv, req, resp>>

\* Lines 90-100: the two models run over X; what they return is theirs to decide
\* (input.models), and either may raise.
Predict ==
    /\ pc = "predict"
    /\ \E ok \in BOOLEAN :
          IF ok
          THEN /\ model' = [model EXCEPT
                    !.preds = [i \in 1..Len(latest.rows) |->
                                 [gpa |-> Num(input.models.gpa),
                                  risk |-> Str(input.models.risk),
                                  proba |-> Num(input.models.proba)]],
                    !.has_proba = input.models.predict_proba]
               /\ pc' = "assemble"
               /\ err' = err
          ELSE /\ Fail(Error("ValueError", "predict", <<>>))
               /\ model' = model
    /\ UNCHANGED <<tkArgs, tkRes, input, ts, latest, nwrites, csv, req, resp>>

\* A variant that opens the output file, emptying it, before line 116
Assemble_truncating ==
    /\ pc = "assemble"
    /\ csv' = File(<<>>, <<>>)
    /\ IF ~({"term_gpa", "cum_gpa"} \subseteq latest.cols)
       THEN Fail(Error("KeyError", "not in index", <<>>))
       ELSE pc' = "write" /\ err' = err
    /\ UNCHANGED <<tkArgs, tkRes, input, ts, latest, model, nwrites, req, resp>>

\* Lines 102-125: latest[base_cols] raises KeyError when a base column is absent
Assemble ==
    /\ pc = "assemble"
    /\ IF ~({"term_gpa", "cum_gpa"} \subseteq latest.cols)
       THEN Fail(Error("KeyError", "not in index", <<>>))
       ELSE pc' = "write" /\ err' = err
    /\ UNCHANGED <<tkArgs, tkRes, input, ts, latest, model, nwrites, csv, req, resp>>

\* Lines 127-129
Write ==
    /\ pc = "write"
    /\ csv' = to_csv(latest.cols,
                     [i \in 1..Len(latest.rows) |-> [row |-> latest.rows[i], pred |-> model.preds[i]]],
                     model.has_proba)
    /\ nwrites' = nwrites + 1
    /\ pc' = "done"
    /\ UNCHANGED <<tkArgs, tkRes, input, ts, latest, model, err, req, resp>>

-----------------------------------------------------------------------------
(* The inputs of the builder runs that are checked *)

MaxSheets == 2

MaxTerms == 2

MaxFeatures == 2

MaxStudents == 2

MaxRows == 3

MaxFieldRows == 2

SeqsUpTo(S, lo, hi) == UNION {[1..n -> S] : n \in lo..hi}

IsInjective(f) == \A i, j \in DOMAIN f : f[i] = f[j] => i = j

T_TERM_SUMMARY == Upper(T_Term_Summary)

T_02_Term_Summary == <<"0","2","_","T","e","r","m","_","S","u","m","m","a","r","y">>

T_Data == <<"D","a","t","a">>

T_data == <<"d","a","t","a">>

T_Sheet1 == <<"S","h","e","e","t","1">>

SheetPool == {T_Term_Summary, T_term_summary, T_TERM_SUMMARY, T_02_Term_Summary,
              T_ML_Dataset, T_ml_dataset, T_Data, T_data, T_Sheet1}

RequestedSheets == {T_Term_Summary, T_Data, T_data, T_ML_Dataset, T_02_term_summary}

AllCols == {"student_id", "term_key", "term_gpa", "term_points", "cum_gpa",
            "term_registered_hours", "cum_points"}

MkRow(cols, id, key, gpa, points) ==
    [c \in cols |->
        CASE c = "student_id" -> id
          [] c = "term_key" -> key
          [] c = "term_gpa" -> gpa
          [] c = "term_points" -> points
          [] c \in {"student_label", "student_name_en", "student_name"} -> Str(<<"A">>)
          [] OTHER -> Num(3)]

TermKey(y, t) == Str(IntText(y) \o <<"-">> \o t)

GoodRow(cols) == MkRow(cols, Str(<<"7">>), TermKey(FirstYear, <<"1">>), Num(3), Num(3))

GoodModels == [gpa |-> 3, risk |-> <<"H", "I", "G", "H">>, proba |-> 1, predict_proba |-> TRUE]

GoodFeatures == <<"term_gpa", "cum_gpa">>

Sheet(name, frame) == [name |-> name, frame |-> frame]

\* Workbooks of up to MaxSheets sheets, every requested name
SheetInputs(maxSheets) ==
    {[sheet |-> r, book |-> [i \in DOMAIN names |-> Sheet(names[i], Frame(AllCols, <<GoodRow(AllCols)>>))],
      feature_cols |-> GoodFeatures, models |-> GoodModels] :
        r \in RequestedSheets,
        names \in {f \in SeqsUpTo(SheetPool, 1, maxSheets) : IsInjective(f)}}

\* Term records of two students: three terms, completed or not
TermRows ==
    {MkRow(AllCols, Str(id), TermKey(y, t), gp[1], gp[2]) :
        id \in {<<"7">>, <<"8">>},
        y \in {FirstYear},
        t \in {<<"2">>, <<"S">>},
        gp \in {<<Num(3), Num(3)>>, <<Num(0), Num(3)>>, <<Num(3), Str(<<"x">>)>>}}
    \cup
    {MkRow(AllCols, Str(id), TermKey(FirstYear + 1, <<"1">>), gp[1], gp[2]) :
        id \in {<<"7">>, <<"8">>},
        gp \in {<<Num(3), Num(3)>>, <<Num(3), Num(-1)>>, <<Str(<<"3">>), Num(3)>>}}

TermInputs(maxTerms) ==
    {[sheet |-> T_Term_Summary,
      book |-> <<Sheet(T_Term_Summary, Frame(AllCols, rows))>>,
      feature_cols |-> GoodFeatures, models |-> GoodModels] :
        rows \in SeqsUpTo(TermRows, 0, maxTerms)}

\* Sheets with and without the columns main() needs; configured feature lists
ColumnSets ==
    {AllCols, AllCols \ {"cum_points"}, AllCols \ {"cum_points", "term_registered_hours"},
     AllCols \ {"term_points"}, AllCols \ {"student_id"}, AllCols \ {"cum_gpa"},
     AllCols \cup {"student_label"}, AllCols \cup {"student_name_en", "student_name"}}

FeaturePool == {"term_gpa", "cum_gpa", "term_registered_hours", "cum_points", "__key"}

FeatureInputs(maxFeatures) ==
    {[sheet |-> T_Term_Summary,
      book |-> <<Sheet(T_Term_Summary, Frame(cols, <<GoodRow(cols)>>))>>,
      feature_cols |-> fc, models |-> GoodModels] :
        cols \in ColumnSets, fc \in SeqsUpTo(FeaturePool, 0, maxFeatures)}

\* A file left by an earlier run
OldFile == File(<<<<"student_id">>>>, <<<<<<"1">>>>>>)

InitBuilder ==
    /\ TermKeyIdle /\ ApiIdle /\ BuilderStart
    /\ input \in SheetInputs(MaxSheets) \cup TermInputs(MaxTerms) \cup FeatureInputs(MaxFeatures)
    /\ csv \in {NoFile, OldFile}

NextBuilder ==
    \/ LoadModels \/ ReadSheet \/ Coerce \/ FilterCompleted \/ SelectLatest
    \/ ValidateFeatures \/ Predict \/ Assemble \/ Write

SpecBuilder == InitBuilder /\ [][NextBuilder]_vars

InitTermKey == TermKeyStart /\ BuilderIdle /\ ApiIdle /\ csv = NoFile

SpecTermKey == InitTermKey /\ [][SortKeyCall]_vars

-----------------------------------------------------------------------------
(* The files the API is checked on *)

\* Identifiers as written in a file: digits with and without leading zeros,
\* a non-numeric one, an empty cell and a cell read_csv reads as missing
IdPool == {<<"7">>, <<"0", "7">>, <<"0", "0", "7">>, <<"A", "7">>, <<>>, <<"N", "A">>}

\* Header lines: the identifier column as is, padded with whitespace, or absent
IdHeaders == {<<<<"student_id">>, <<"student_name">>>>,
              <<<<" ", "student_id", " ">>, <<"student_name">>>>,
              <<<<"id">>, <<"student_name">>>>}

\* Row i holds its identifier and a name that tells the rows apart: A, B, C, ...
IdFiles(maxRows) ==
    {NoFile} \cup
    {File(h, [i \in DOMAIN ids |-> <<ids[i], <<UpperChars[i]>>>>]) :
        h \in IdHeaders, ids \in SeqsUpTo(IdPool, 0, maxRows)}

\* Files that hold the columns of one response field: any of its three
\* names, each cell a zero, a text or empty
FieldLists == {NameColumns, GpaColumns, PredictedColumns, RiskColumns, ProbColumns}

SubSeqs(names) ==
    {SelectSeq2(names, keep) : keep \in [1..Len(names) -> BOOLEAN]}

FieldCells == {<<"0">>, <<"H">>, <<>>}

FieldFilesOf(names, n) ==
    {File(<<<<"student_id">>>> \o [j \in DOMAIN names |-> <<names[j]>>],
          [i \in 1..n |-> <<ids[i]>> \o cells[i]]) :
        ids \in [1..n -> {<<"7">>, <<"8">>}],
        cells \in [1..n -> [1..Len(names) -> FieldCells]]}

FieldFiles(maxRows) ==
    UNION {FieldFilesOf(names, n) :
              names \in UNION {SubSeqs(l) : l \in FieldLists}, n \in 1..maxRows}

InitApiIds ==
    /\ TermKeyIdle /\ BuilderIdle /\ ApiIdle
    /\ csv \in IdFiles(MaxRows)

InitApiFields ==
    /\ TermKeyIdle /\ BuilderIdle /\ ApiIdle
    /\ csv \in FieldFiles(MaxFieldRows)

NextApi == \E q \in Requests : Prediction(q)

SpecApiIds == InitApiIds /\ [][NextApi]_vars

\* The requests made on the field files: for either identifier, or without one
FieldRequests ==
    {NoReq} \cup {[present |-> TRUE, s |-> s] : s \in {<<"7">>, <<"8">>}}

NextApiFields == \E q \in FieldRequests : Prediction(q)

SpecApiFields == InitApiFields /\ [][NextApiFields]_vars

\* The builder's run and the API's requests on the file it writes: sheets of
\* up to MaxStudents students, one completed term each
StudentRows ==
    {MkRow(AllCols, Str(id), TermKey(FirstYear, <<"1">>), Num(3), Num(3)) :
        id \in IdPool \ NaTexts}

StudentInputs(maxStudents) ==
    {[sheet |-> T_Term_Summary,
      book |-> <<Sheet(T_Term_Summary, Frame(AllCols, rows))>>,
      feature_cols |-> GoodFeatures,
      models |-> [GoodModels EXCEPT !.predict_proba = p]] :
        rows \in SeqsUpTo(StudentRows, 1, maxStudents), p \in BOOLEAN}

InitRoundTrip ==
    /\ TermKeyIdle /\ ApiIdle /\ BuilderStart
    /\ input \in StudentInputs(MaxStudents)
    /\ csv = NoFile

Spec == InitRoundTrip /\ [][NextBuilder \/ NextApi]_vars

-----------------------------------------------------------------------------
(* Claims about term_sort_key (SpecTermKey) *)

\* C3: term_sort_key maps "Y-T" to (Y, T) and "Y-S" to (Y, 3), so that for
\* every year Y the keys order Y-1 < Y-2 < Y-S < (Y+1)-1, and a smaller year
\* sorts first whatever the two terms are.
C3_TermOrdering ==
    tkRes # <<>> =>
        /\ \A Y \in Years, i \in 1..2 :
              /\ \A T \in 1..2 : tkArgs[i] = TermKey(Y, IntText(T)) => tkRes[i] = <<Y, T>>
              /\ tkArgs[i] = TermKey(Y, <<"S">>) => tkRes[i] = <<Y, 3>>
        /\ \A Y \in Years :
              /\ tkArgs = <<TermKey(Y, <<"1">>), TermKey(Y, <<"2">>)>> => KeyLess(tkRes[1], tkRes[2])
              /\ tkArgs = <<TermKey(Y, <<"2">>), TermKey(Y, <<"S">>)>> => KeyLess(tkRes[1], tkRes[2])
              /\ tkArgs = <<TermKey(Y, <<"S">>), TermKey(Y + 1, <<"1">>)>> => KeyLess(tkRes[1], tkRes[2])
        /\ \A Y1, Y2 \in Years, t1, t2 \in TermTexts :
              (Y1 < Y2 /\ tkArgs = <<TermKey(Y1, t1), TermKey(Y2, t2)>>)
                  => (KeyLess(tkRes[1], tkRes[2]) /\ ~KeyLess(tkRes[2], tkRes[1]))

\* The summer term of one year and the first term of the next have been keyed
C3_Witness ==
    /\ tkRes # <<>>
    /\ tkArgs = <<TermKey(FirstYear, <<"S">>), TermKey(FirstYear + 1, <<"1">>)>>

-----------------------------------------------------------------------------
(* Claims about the builder (SpecBuilder) *)

\* The sheet the run read, as it was in the workbook
SheetRead == input.book[model.sheet].frame

\* A value that is a number above zero, as a number or as a str that reads as one
IsPositiveNumber(v) ==
    \/ v.k = "num" /\ v.n > 0
    \/ v.k = "str" /\ IsIntText(v.s) /\ IntOfText(v.s) > 0

\* The rows of the sheet that are completed terms
CompletedTerms ==
    {i \in 1..Len(SheetRead.rows) :
        /\ IsPositiveNumber(SheetRead.rows[i]["term_gpa"])
        /\ IsPositiveNumber(SheetRead.rows[i]["term_points"])}

HeaderIndex(file, name) == CHOOSE j \in 1..Len(file.header) : file.header[j] = <<name>>

Written(i, name) == csv.rows[i][HeaderIndex(csv, name)]

\* C2: the file a run writes has exactly one row for each student with a
\* completed term and none for anyone else, and each row is a completed term
\* of that student whose (year, ordinal) key no completed term of the student
\* exceeds; terms that are not completed play no part.
C2_LatestTerm ==
    pc = "done" =>
        /\ \A i \in CompletedTerms :
              Cardinality({o \in 1..Len(csv.rows) :
                  Written(o, "student_id") = SheetRead.rows[i]["student_id"].s}) = 1
        /\ \A o \in 1..Len(csv.rows) :
              \E i \in CompletedTerms :
                  /\ SheetRead.rows[i]["student_id"].s = Written(o, "student_id")
                  /\ SheetRead.rows[i]["term_key"].s = Written(o, "term_key")
                  /\ \A j \in CompletedTerms :
                        SheetRead.rows[j]["student_id"] = SheetRead.rows[i]["student_id"]
                            => ~KeyLess(term_sort_key(SheetRead.rows[i]["term_key"]),
                                        term_sort_key(SheetRead.rows[j]["term_key"]))

\* A run has finished on a sheet where one student has two completed terms
\* with different keys, the later one first in the sheet
C2_Witness ==
    /\ pc = "done"
    /\ \E i, j \in CompletedTerms :
          /\ i < j
          /\ SheetRead.rows[i]["student_id"] = SheetRead.rows[j]["student_id"]
          /\ KeyLess(term_sort_key(SheetRead.rows[j]["term_key"]),
                     term_sort_key(SheetRead.rows[i]["term_key"]))

\* Two sheet names that differ at most in the case of their letters
SameIgnoringCase(a, b) ==
    Len(a) = Len(b) /\ \A i \in 1..Len(a) : LowerChar(a[i]) = LowerChar(b[i])

SheetsAvailable == SheetNames(input.book)

ExactSheet == \E i \in 1..Len(SheetsAvailable) : SheetsAvailable[i] = input.sheet

CaseSheet == \E i \in 1..Len(SheetsAvailable) : SameIgnoringCase(SheetsAvailable[i], input.sheet)

\* The positions in the candidate list of the candidates the workbook holds
CandidatesHeld ==
    {c \in 1..Len(Candidates) :
        \E i \in 1..Len(SheetsAvailable) : SameIgnoringCase(SheetsAvailable[i], Candidates[c])}

SheetNotFound ==
    pc = "failed" /\ err.type = "ValueError" /\ err.what = "Worksheet not found. Available sheets:"

\* The run is past line 63
SheetStepTaken == model.sheet # 0 \/ SheetNotFound

\* C7: once the run is past the feature check, no configured feature column
\* is absent from the sheet that was read; and when the check fails, the
\* error names exactly the configured columns absent from that sheet.
C7_FeatureValidation ==
    LET absent == {model.feature_cols[i] : i \in
                      {i \in 1..Len(model.feature_cols) : model.feature_cols[i] \notin SheetRead.cols}}
    IN  /\ (pc \in {"predict", "assemble", "write", "done"}
               \/ (pc = "failed" /\ err.what \in {"predict", "not in index"}))
              => absent = {}
        /\ (pc = "failed" /\ err.what = "Missing required feature columns in Term_Summary:")
              => /\ absent # {}
                 /\ {err.names[i] : i \in 1..Len(err.names)} = absent

\* C9: the output file changes only in the step that writes it, which is the
\* last step of a run that succeeds; a run that has not finished, or that
\* failed, has written nothing, and a finished run has written once.
C9_AllOrNothing ==
    /\ []((pc = "done" => nwrites = 1) /\ (pc # "done" => nwrites = 0))
    /\ [][csv' # csv => (pc = "write" /\ pc' = "done")]_vars

\* A run that failed at its last check (line 116), with an older file in place
C9_Witness ==
    /\ pc = "failed" /\ err.what = "not in index"
    /\ csv = OldFile

\* C10: the sheet read is the requested one when the workbook holds it; else
\* one that equals it ignoring case; else one that equals, ignoring case, the
\* first candidate of the list that the workbook holds; the run fails at this
\* step, listing the workbook's sheets, exactly when there is none of these.
C10_SheetResolution ==
    /\ model.sheet # 0 =>
          /\ ExactSheet => SheetsAvailable[model.sheet] = input.sheet
          /\ (~ExactSheet /\ CaseSheet)
                => SameIgnoringCase(SheetsAvailable[model.sheet], input.sheet)
          /\ (~ExactSheet /\ ~CaseSheet)
                => /\ CandidatesHeld # {}
                   /\ \E c \in CandidatesHeld :
                         /\ \A d \in CandidatesHeld : c <= d
                         /\ SameIgnoringCase(SheetsAvailable[model.sheet], Candidates[c])
    /\ SheetNotFound => err.names = SheetsAvailable
    /\ SheetStepTaken => (SheetNotFound <=> (~ExactSheet /\ ~CaseSheet /\ CandidatesHeld = {}))

\* A sheet was read by fallback from a workbook that holds two candidates,
\* the later candidate of the list first in the workbook
C10_Witness ==
    /\ model.sheet = 2
    /\ ~ExactSheet /\ ~CaseSheet
    /\ Cardinality(CandidatesHeld) >= 2
    /\ ~SameIgnoringCase(SheetsAvailable[1], SheetsAvailable[2])

-----------------------------------------------------------------------------
(* Claims about GET /api/prediction (SpecApiIds, SpecApiFields) *)

\* The identifier of the last request, trimmed
Requested == Strip(IF req.present THEN req.s ELSE <<>>)

\* The file has a column named student_id once its header is trimmed
NamesIdColumn(file) == \E j \in 1..Len(file.header) : Strip(file.header[j]) = <<"student_id">>

IdColumn(file) == CHOOSE j \in 1..Len(file.header) : Strip(file.header[j]) = <<"student_id">>

\* The rows of the file whose identifier, as written, is the text
RowsWritten(file, text) ==
    {i \in 1..Len(file.rows) : file.rows[i][IdColumn(file)] = text}

\* C4: a request whose student_id is absent, empty or only whitespace is
\* answered 400 with an error body, whether the file is present, absent or
\* without the identifier column.
C4_BlankIdentifier ==
    (resp # NoResp /\ Requested = <<>>)
        => (resp.status = 400 /\ resp.error = "student_id required")

\* A whitespace-only identifier has been answered while the file is absent
C4_Witness ==
    /\ resp # NoResp
    /\ req.present /\ req.s = <<" ">>
    /\ ~csv.exists

\* C5: a request with a non-blank identifier is answered 500, naming
\* predictions_next_term.csv, when the file is absent; else 500 when no
\* header trims to student_id; else 404 when no row's identifier as written
\* equals the requested one; else 200.
C5_StatusOrder ==
    (resp # NoResp /\ Requested # <<>>) =>
        IF ~csv.exists
        THEN /\ resp.status = 500
             /\ resp.error = "predictions_next_term.csv not found in the same folder as api_server.py"
        ELSE IF ~NamesIdColumn(csv) THEN resp.status = 500
        ELSE IF RowsWritten(csv, Requested) = {} THEN resp.status = 404
        ELSE resp.status = 200

\* C8: when several rows of the file hold the requested identifier, the 200
\* response is built from the last of them in file order.
C8_LastDuplicate ==
    (resp.status = 200 /\ Cardinality(RowsWritten(csv, Requested)) >= 2) =>
        \E i \in RowsWritten(csv, Requested) :
            /\ \A k \in RowsWritten(csv, Requested) : k <= i
            /\ resp.row = i
            /\ resp.student_name = Str(csv.rows[i][HeaderIndex(csv, "student_name")])

\* The response field that a column list resolves
FieldOf(names) ==
    CASE names = NameColumns      -> resp.student_name
      [] names = GpaColumns       -> resp.current_gpa
      [] names = PredictedColumns -> resp.predicted_next_term_gpa
      [] names = RiskColumns      -> resp.risk_level
      [] names = ProbColumns      -> resp.risk_probability_high

\* C6: each field of a 200 response is the value that the first column of
\* its list present in the file holds in the row answered, whatever that
\* value is, and no field is left without a value.
C6_SynonymResolution ==
    resp.status = 200 =>
        LET df == load_predictions(csv)
        IN  \A names \in FieldLists :
                LET present == {j \in 1..Len(names) : HasColumn(df, names[j])}
                IN  /\ present # {} =>
                          \E j \in present :
                              /\ \A k \in present : j <= k
                              /\ FieldOf(names) = RowGet(df, resp.row, names[j])
                    /\ present # {} => FieldOf(names) # None

-----------------------------------------------------------------------------
(* Claims about the builder's file as the API reads it (Spec) *)

\* C1: once the builder has written its file, a request for an identifier
\* exactly as one row of the file holds it is answered 200.
C1_RoundTrip ==
    [][(pc = "done" /\ req'.present /\ RowsWritten(csv, req'.s) # {})
          => resp'.status = 200]_vars

=============================================================================
